---- MODULE Spec2Model ----
(***************************************************************************)
(* Model of src/arrangement_check.py: the MayaModelCheck predicates, the   *)
(* correction algorithm fix_arrangement and the orchestrator               *)
(* arrangement_check_and_fix, run against a scene host that maps every     *)
(* object name to a translation and a face count.                          *)
(*                                                                         *)
(* Arithmetic is exact.  A coordinate is stored as an integer number of    *)
(* 1/Scale units, the scene starts on grid points whose distance from the  *)
(* origin is a whole number, and Scale is a multiple of every possible     *)
(* sphere count, so that the square root of magnitude and the division of  *)
(* fix_arrangement have exact results.  The rounding of binary64 floats is *)
(* not modelled.                                                           *)
(***************************************************************************)
EXTENDS Integers, Sequences, FiniteSets, TLC

(* ---------------------------------------------------------------- bounds *)
MaxObjs == 3     \* objects in a list
MaxCoord == 2    \* largest x or y coordinate of a starting position
MaxPts == 4      \* objects in a list given to check_if_in_line alone

(* ------------------------------------------------------------------ names *)
(* An object name is a Python str, modelled as the tuple of its characters *)
(* so that `in` (substring) and obj[-1] are computed, not assumed.         *)
pSphere1 == <<"p","S","p","h","e","r","e","1">>
pSphere2 == <<"p","S","p","h","e","r","e","2">>
pSphere10 == <<"p","S","p","h","e","r","e","1","0">>
pSolid1 == <<"p","S","o","l","i","d","1">>
pSolid2 == <<"p","S","o","l","i","d","2">>
pSolid10 == <<"p","S","o","l","i","d","1","0">>
pSphereShape1 == <<"p","S","p","h","e","r","e","S","h","a","p","e","1">>
pSolidShape1 == <<"p","S","o","l","i","d","S","h","a","p","e","1">>
pSolidShape2 == <<"p","S","o","l","i","d","S","h","a","p","e","2">>

TokPSphere == <<"p","S","p","h","e","r","e">>
TokSphere == <<"S","p","h","e","r","e">>
TokPSolid == <<"p","S","o","l","i","d">>
TokShape == <<"S","h","a","p","e">>

ArrangeNames == <<pSphere1, pSolid1, pSphere2, pSolid2>>
PairNames == {pSphere1, pSphere10, pSolid1, pSolid10}
HostNames == {pSphere1, pSolid1, pSphereShape1, pSolidShape1, pSolidShape2}
LineNames == <<pSphere1, pSolid1, pSphere2, pSolid2, pSphere10, pSolid10>>
FaceCounts == {4, 6}

(* Python `sub in s` on str *)
Contains(sub, s) ==
    \E k \in 0..(Len(s) - Len(sub)) : SubSeq(s, k + 1, k + Len(sub)) = sub

(* Python obj[-1] *)
LastChar(s) == s[Len(s)]

(* --------------------------------------------------------------- numbers *)
RECURSIVE Gcd(_, _)
Gcd(a, b) == IF b = 0 THEN a ELSE Gcd(b, a % b)

RECURSIVE LcmUpTo(_)
LcmUpTo(n) == IF n <= 1 THEN 1
              ELSE LET m == LcmUpTo(n - 1) IN (m * n) \div Gcd(m, n)

(* coordinates are held in units of 1/Scale *)
Scale == LcmUpTo(MaxObjs)

Abs(x) == IF x < 0 THEN 0 - x ELSE x

RECURSIVE SqrtBetween(_, _, _)
SqrtBetween(q, lo, hi) ==
    IF lo >= hi THEN lo
    ELSE LET mid == (lo + hi + 1) \div 2
         IN  IF mid * mid <= q THEN SqrtBetween(q, mid, hi)
             ELSE SqrtBetween(q, lo, mid - 1)

IsSquare(q) == LET r == SqrtBetween(q, 0, 3 * MaxCoord) IN r * r = q

(* ----------------------------------------------------------- vector math *)
magnitude(vec) ==
    LET mag == (vec[1] * vec[1]) + (vec[2] * vec[2]) + (vec[3] * vec[3])
    IN  SqrtBetween(mag, 0, Abs(vec[1]) + Abs(vec[2]) + Abs(vec[3]))

distance_bw_points(p_1, p_2) ==
    LET d1 == p_1[1] - p_2[1]
        d2 == p_1[2] - p_2[2]
        d3 == p_1[3] - p_2[3]
        mag == (d1 * d1) + (d2 * d2) + (d3 * d3)
    IN  SqrtBetween(mag, 0, Abs(d1) + Abs(d2) + Abs(d3))

vector_bw_obj(v_1, v_2) ==
    <<v_2[1] - v_1[1], v_2[2] - v_1[2], v_2[3] - v_1[3]>>

cross_product(v_1, v_2) ==
    << (v_1[2] * v_2[3]) - (v_1[3] * v_2[2]),
       (v_1[3] * v_2[1]) - (v_1[1] * v_2[3]),
       (v_1[1] * v_2[2]) - (v_1[2] * v_2[1]) >>

(* the scene host's reads, on a scene P (name -> position), F (name ->
   face count) *)
get_position(P, obj) == P[obj]

get_faces(F, obj) == F[obj]

distance_from_center(P, obj) ==
    distance_bw_points(<<0, 0, 0>>, get_position(P, obj))

(* ------------------------------------------------------------- list.sort *)
(* Python's sort is stable: an element goes after every element whose key
   is less than or equal to its own. *)
RECURSIVE InsertByKey(_, _, _)
InsertByKey(x, kx, srt) ==
    IF srt = << >> THEN << x >>
    ELSE LET last == srt[Len(srt)]
         IN  IF last[2] <= kx THEN Append(srt, x)
             ELSE Append(InsertByKey(x, kx, SubSeq(srt, 1, Len(srt) - 1)), last)

RECURSIVE SortKeyed(_)
SortKeyed(kl) ==
    IF kl = << >> THEN << >>
    ELSE LET n == Len(kl)
         IN  InsertByKey(kl[n], kl[n][2], SortKeyed(SubSeq(kl, 1, n - 1)))

sort_by_distance(P, l) ==
    LET kl == [i \in 1..Len(l) |-> <<l[i], distance_from_center(P, l[i])>>]
        s == SortKeyed(kl)
    IN  [i \in 1..Len(l) |-> s[i][1]]

sort_by_faces(F, l) ==
    LET kl == [i \in 1..Len(l) |-> <<l[i], get_faces(F, l[i])>>]
        s == SortKeyed(kl)
    IN  [i \in 1..Len(l) |-> s[i][1]]

sort_numbers(l) ==
    LET kl == [i \in 1..Len(l) |-> <<l[i], l[i]>>]
        s == SortKeyed(kl)
    IN  [i \in 1..Len(l) |-> s[i][1]]

SelectNames(l, tok) == SelectSeq(l, LAMBDA o : Contains(tok, o))

(* ------------------------------------------------------------ predicates *)
check_if_in_line(P, obj_list) ==
    LET objs_position == [i \in 1..Len(obj_list) |-> get_position(P, obj_list[i])]
        vectors == [i \in 1..(Len(objs_position) - 1) |->
                       vector_bw_obj(objs_position[i], objs_position[i + 1])]
        cross_product_result == [i \in 1..(Len(vectors) - 1) |->
                       magnitude(cross_product(vectors[i], vectors[i + 1])) = 0]
    IN  ~ (\E i \in DOMAIN cross_product_result : ~ cross_product_result[i])

(* distance_from_origin[1] of line 177 is out of range on a list of fewer
   than two objects *)
if_equally_spaced_raises(obj_list) == Len(obj_list) < 2

if_equally_spaced(P, obj_list) ==
    LET distance_from_origin ==
            sort_numbers([i \in 1..Len(obj_list) |->
                             magnitude(get_position(P, obj_list[i]))])
        difference == distance_from_origin[2] - distance_from_origin[1]
        check == [i \in 1..(Len(distance_from_origin) - 1) |->
                    distance_from_origin[i + 1] - distance_from_origin[i] = difference]
    IN  ~ (\E i \in DOMAIN check : ~ check[i])

if_right_order(P, obj_list) ==
    ~ (\E i \in 1..Len(obj_list) :
         /\ Contains(TokPSphere, obj_list[i])
         /\ LET index == LastChar(obj_list[i])
                solid_name == Append(TokPSolid, index)
            IN  \E j \in 1..Len(obj_list) :
                  /\ Contains(solid_name, obj_list[j])
                  /\ distance_from_center(P, obj_list[j])
                       < distance_from_center(P, obj_list[i]))

if_right_order_poly(F, obj_list) ==
    LET polysolids == SelectNames(obj_list, TokPSolid)
    IN  ~ (\E i \in 1..(Len(polysolids) - 1) :
             get_faces(F, polysolids[i]) > get_faces(F, polysolids[i + 1]))

(* ------------------------------------------------------------ correction *)
(* sphere[-1] of line 248 is out of range when the list has no sphere *)
distance_for_furthestsphere_raises(obj_list) ==
    SelectNames(obj_list, TokPSphere) = << >>

(* the closest sphere instead of the furthest: sphere[0] for sphere[-1] *)
distance_for_closestsphere(P, obj_list) ==
    LET sphere == sort_by_distance(P, SelectNames(obj_list, TokPSphere))
    IN  distance_from_center(P, sphere[1])

distance_for_furthestsphere(P, obj_list) ==
    LET sphere == sort_by_distance(P, SelectNames(obj_list, TokPSphere))
    IN  distance_from_center(P, sphere[Len(sphere)])

(* every object counted as a sphere *)
no_of_spheres_all(obj_list) == Len(obj_list)

no_of_spheres(obj_list) == Len(SelectNames(obj_list, TokPSphere))

new_order_for_fixed_arrangement(P, F, obj_list) ==
    LET spheres == SelectSeq(obj_list, LAMBDA o : Contains(TokSphere, o))
        solids == SelectSeq(obj_list, LAMBDA o : ~ Contains(TokSphere, o))
    IN  sort_by_distance(P, spheres) \o sort_by_faces(F, solids)

(* the loop index used without the + 1 of line 306 *)
fix_arrangement_from_zero(P, F, obj_list) ==
    LET distance == distance_for_furthestsphere(P, obj_list)
        n == no_of_spheres(obj_list)
        new_spacing_bw_objs == distance \div n
        order == new_order_for_fixed_arrangement(P, F, obj_list)
    IN  [i \in 1..Len(order) |-> <<order[i], <<new_spacing_bw_objs * (i - 1), 0, 0>>>>]

(* the setAttr calls of one fix_arrangement call, in order: one entry per
   loop iteration, <<object, position written>> *)
fix_arrangement(P, F, obj_list) ==
    LET distance == distance_for_furthestsphere(P, obj_list)
        n == no_of_spheres(obj_list)
        new_spacing_bw_objs == distance \div n
        order == new_order_for_fixed_arrangement(P, F, obj_list)
    IN  [i \in 1..Len(order) |-> <<order[i], <<new_spacing_bw_objs * i, 0, 0>>>>]

(* the scene after the host has applied the writes in order *)
RECURSIVE set_attrs(_, _)
set_attrs(P, plan) ==
    IF plan = << >> THEN P
    ELSE set_attrs([P EXCEPT ![plan[1][1]] = plan[1][2]], Tail(plan))

(* ---------------------------------------------------------- orchestrator *)
(* lines 328-330: removing from the list that is being iterated; the loop
   index advances past the element that slid into the freed slot *)
RECURSIVE list_remove(_, _)
list_remove(l, x) ==
    IF l = << >> THEN << >>
    ELSE IF l[1] = x THEN Tail(l)
    ELSE << l[1] >> \o list_remove(Tail(l), x)

RECURSIVE remove_shapes(_, _)
remove_shapes(l, i) ==
    IF i > Len(l) THEN l
    ELSE IF Contains(TokShape, l[i]) THEN remove_shapes(list_remove(l, l[i]), i + 1)
    ELSE remove_shapes(l, i + 1)

(* a correction as soon as either ordering fails *)
order_needs_fix_either(are_in_right_order, are_in_right_order2) ==
    ~ (are_in_right_order /\ are_in_right_order2)

(* line 346 *)
order_needs_fix(are_in_right_order, are_in_right_order2) ==
    ~ (are_in_right_order \/ are_in_right_order2)

(* ------------------------------------------------------------------ state *)
VARIABLES
    cand,      \* what cmds.listRelatives returns / the list a function is given
    pos,       \* scene host: object -> translation, in 1/Scale units
    faces,     \* scene host: object -> face count
    obj_list,  \* the list the last operation worked on
    op,        \* the last operation
    ret,       \* its outcome: "True", "False", "None" or "IndexError"
    prePos,    \* the translations when the last operation started
    written,   \* the setAttr plan of the last fix_arrangement call
    fixCalls,  \* fix_arrangement calls made by the last operation
    flags      \* the four predicate results of the last pass

vars == <<cand, pos, faces, obj_list, op, ret, prePos, written, fixCalls, flags>>

NoFlags == [spaced |-> TRUE, in_line |-> TRUE, order_poly |-> TRUE, order |-> TRUE]

Bool(b) == IF b THEN "True" ELSE "False"

(* the grid points the objects start on: x and y up to MaxCoord, z in or one
   unit out of the plane, at a whole distance from the origin *)
Points == {p \in (0..MaxCoord) \X (0..MaxCoord) \X {0, 1} :
              IsSquare((p[1] * p[1]) + (p[2] * p[2]) + (p[3] * p[3]))}

AxisPoints == {p \in Points : p[2] = 0 /\ p[3] = 0}

Scaled(p) == <<p[1] * Scale, p[2] * Scale, p[3] * Scale>>

RECURSIVE SeqsUpTo(_, _)
SeqsUpTo(S, n) ==
    IF n = 0 THEN {<< >>}
    ELSE LET shorter == SeqsUpTo(S, n - 1)
         IN  shorter \cup {Append(l, x) : l \in {m \in shorter : Len(m) = n - 1},
                                           x \in S}

Reverse(l) == [i \in 1..Len(l) |-> l[Len(l) + 1 - i]]

(* the lists that keep some of the elements of l, in the order of l *)
RECURSIVE SubLists(_)
SubLists(l) ==
    IF l = << >> THEN {<< >>}
    ELSE LET rest == SubLists(Tail(l))
         IN  rest \cup {<< l[1] >> \o m : m \in rest}

Distinct(l) == \A i, j \in 1..Len(l) : i # j => l[i] # l[j]

Range(l) == {l[i] : i \in 1..Len(l)}

IndexOf(l, o) == CHOOSE i \in 1..Len(l) : l[i] = o

(* a scene: the objects the host lists, each on a grid point; the ones that
   are not spheres have a face count *)
InitScene(lists, pts) ==
    /\ cand \in lists
    /\ pos \in {[o \in Range(cand) |-> Scaled(g[IndexOf(cand, o)])] :
                   g \in [1..Len(cand) -> pts]}
    /\ faces \in {[o \in Range(cand) |-> IF Contains(TokSphere, o) THEN 0
                                           ELSE g[IndexOf(cand, o)]] :
                   g \in [1..Len(cand) -> FaceCounts]}
    /\ obj_list = << >>
    /\ op = "none"
    /\ ret = "None"
    /\ prePos = pos
    /\ written = << >>
    /\ fixCalls = 0
    /\ flags = NoFlags

(* ---------------------------------------------------------------- actions *)
(* a direct call of one predicate on the list cand *)
CallPredicate(name, raises, value) ==
    /\ obj_list' = cand
    /\ op' = name
    /\ ret' = IF raises THEN "IndexError" ELSE Bool(value)
    /\ prePos' = pos
    /\ written' = << >>
    /\ fixCalls' = 0
    /\ flags' = NoFlags
    /\ UNCHANGED <<cand, pos, faces>>

CallCheckIfInLine ==
    CallPredicate("check_if_in_line", FALSE, check_if_in_line(pos, cand))

CallIfEquallySpaced ==
    CallPredicate("if_equally_spaced", if_equally_spaced_raises(cand),
                  if_equally_spaced(pos, cand))

CallIfRightOrder ==
    CallPredicate("if_right_order", FALSE, if_right_order(pos, cand))

CallIfRightOrderPoly ==
    CallPredicate("if_right_order_poly", FALSE, if_right_order_poly(faces, cand))

(* a direct call of fix_arrangement on the list cand *)
CallFixArrangement ==
    /\ obj_list' = cand
    /\ op' = "fix_arrangement"
    /\ prePos' = pos
    /\ flags' = NoFlags
    /\ IF distance_for_furthestsphere_raises(cand)
       THEN /\ ret' = "IndexError"
            /\ written' = << >>
            /\ fixCalls' = 0
            /\ pos' = pos
       ELSE LET plan == fix_arrangement(pos, faces, cand)
            IN  /\ ret' = "None"
                /\ written' = plan
                /\ fixCalls' = 1
                /\ pos' = set_attrs(pos, plan)
    /\ UNCHANGED <<cand, faces>>

(* one pass of arrangement_check_and_fix over the host's candidate list C
   in the scene P, F: what it leaves behind *)
arrangement_check_and_fix(C, P, F) ==
    LET l == sort_by_distance(P, remove_shapes(C, 1))
        raised == [obj_list |-> l, ret |-> "IndexError", flags |-> NoFlags,
                   written |-> << >>, fixCalls |-> 0, pos |-> P]
    IN
    IF if_equally_spaced_raises(l) THEN raised
    ELSE LET are_object_equally_spaced == if_equally_spaced(P, l)
             are_object_in_line == check_if_in_line(P, l)
             are_in_right_order2 == if_right_order_poly(F, l)
             are_in_right_order == if_right_order(P, l)
             fix1 == ~ are_object_equally_spaced
             fix2 == ~ are_object_in_line
             fix3 == order_needs_fix(are_in_right_order, are_in_right_order2)
             plan1 == IF fix1 THEN fix_arrangement(P, F, l) ELSE << >>
             pos1 == set_attrs(P, plan1)
             plan2 == IF fix2 THEN fix_arrangement(pos1, F, l) ELSE << >>
             pos2 == set_attrs(pos1, plan2)
             plan3 == IF fix3 THEN fix_arrangement(pos2, F, l) ELSE << >>
             pos3 == set_attrs(pos2, plan3)
             calls == (IF fix1 THEN 1 ELSE 0) + (IF fix2 THEN 1 ELSE 0)
                        + (IF fix3 THEN 1 ELSE 0)
             seen == [spaced |-> are_object_equally_spaced,
                      in_line |-> are_object_in_line,
                      order_poly |-> are_in_right_order2,
                      order |-> are_in_right_order]
         IN  IF calls > 0 /\ distance_for_furthestsphere_raises(l)
             THEN [raised EXCEPT !.flags = seen]
             ELSE [obj_list |-> l, ret |-> "None", flags |-> seen,
                   written |-> IF fix3 THEN plan3 ELSE IF fix2 THEN plan2 ELSE plan1,
                   fixCalls |-> calls, pos |-> pos3]

ArrangementCheckAndFix ==
    \E r \in {arrangement_check_and_fix(cand, pos, faces)} :
        /\ obj_list' = r.obj_list
        /\ op' = "arrangement_check_and_fix"
        /\ ret' = r.ret
        /\ prePos' = pos
        /\ written' = r.written
        /\ fixCalls' = r.fixCalls
        /\ flags' = r.flags
        /\ pos' = r.pos
        /\ UNCHANGED <<cand, faces>>

(* ---------------------------------------------------------- specifications *)
(* the arrangement: a pass, or the correction alone, on spheres and solids *)
(* the host lists the objects in scene order or in the reverse order, so
   that two objects at the same distance come in either order *)
Init == InitScene({l \in SubLists(ArrangeNames) \cup SubLists(Reverse(ArrangeNames)) :
                      Len(l) <= MaxObjs}, Points)

Next == ArrangementCheckAndFix \/ CallFixArrangement

Spec == Init /\ [][Next]_vars

(* the four predicates called on lists of zero to MaxObjs objects *)
InitPred == InitScene({l \in SeqsUpTo(PairNames, MaxObjs) : Distinct(l)}, Points)

NextPred == \/ CallCheckIfInLine
            \/ CallIfEquallySpaced
            \/ CallIfRightOrder
            \/ CallIfRightOrderPoly

SpecPred == InitPred /\ [][NextPred]_vars

(* collinearity of up to MaxPts points *)
InitLine == InitScene({SubSeq(LineNames, 1, n) : n \in 0..MaxPts}, Points)

NextLine == CallCheckIfInLine

SpecLine == InitLine /\ [][NextLine]_vars

(* a pass over a candidate list that holds shape nodes *)
InitHost == InitScene({l \in SeqsUpTo(HostNames, MaxObjs) : Distinct(l)}, AxisPoints)

NextHost == ArrangementCheckAndFix

SpecHost == InitHost /\ [][NextHost]_vars

(* ------------------------------------------------- vocabulary of the claims *)
Digits == {"0", "1", "2", "3", "4", "5", "6", "7", "8", "9"}

(* the numeric index suffix of a name: its trailing digits *)
RECURSIVE NumSuffix(_)
NumSuffix(s) ==
    IF s = << >> \/ s[Len(s)] \notin Digits THEN << >>
    ELSE Append(NumSuffix(SubSeq(s, 1, Len(s) - 1)), s[Len(s)])

IsSphere(o) == Contains(TokPSphere, o)
IsSolid(o) == Contains(TokPSolid, o)
IsShape(o) == Contains(TokShape, o)

NormSq(p) == (p[1] * p[1]) + (p[2] * p[2]) + (p[3] * p[3])
Norm(p) == CHOOSE r \in 0..(Abs(p[1]) + Abs(p[2]) + Abs(p[3])) :
               r * r <= NormSq(p) /\ (r + 1) * (r + 1) > NormSq(p)

Spheres(l) == {o \in Range(l) : IsSphere(o)}
Solids(l) == {o \in Range(l) : IsSolid(o)}

MaxOf(S) == CHOOSE x \in S : \A y \in S : y <= x

FurthestSphere(P, l) == MaxOf({Norm(P[o]) : o \in Spheres(l)})

Parallel(u, v) ==
    /\ (u[2] * v[3]) = (u[3] * v[2])
    /\ (u[3] * v[1]) = (u[1] * v[3])
    /\ (u[1] * v[2]) = (u[2] * v[1])

Minus(p, q) == <<p[1] - q[1], p[2] - q[2], p[3] - q[3]>>

(* the points P[l[i]], i in I, lie on one line *)
CollinearAt(P, l, I) ==
    \A i, j, k \in I : Parallel(Minus(P[l[j]], P[l[i]]), Minus(P[l[k]], P[l[i]]))

Collinear(P, l) == CollinearAt(P, l, 1..Len(l))

(* one point is off the line on which all the others lie *)
OneOffLine(P, l) ==
    /\ ~ Collinear(P, l)
    /\ \E i \in 1..Len(l) : CollinearAt(P, l, (1..Len(l)) \ {i})

MinOf(S) == CHOOSE x \in S : \A y \in S : x <= y

(* the distances from the origin, in ascending order, go up in equal steps:
   they are all the same, or all different and an arithmetic progression *)
EvenlySpaced(P, l) ==
    LET D == {Norm(P[l[i]]) : i \in 1..Len(l)}
    IN  \/ Cardinality(D) <= 1
        \/ /\ Cardinality(D) = Len(l)
           /\ \E g \in 1..MaxOf(D) :
                  D = {MinOf(D) + (g * i) : i \in 0..(Len(l) - 1)}

SpheresBeforeSolids(P, l) ==
    \A s \in Spheres(l) : \A t \in Solids(l) :
        NumSuffix(s) = NumSuffix(t) => Norm(P[s]) <= Norm(P[t])

FacesGrowOutwards(P, F, l) ==
    \A a, b \in Solids(l) : Norm(P[a]) < Norm(P[b]) => F[a] <= F[b]

Layout(P, F, l) ==
    /\ Collinear(P, l)
    /\ EvenlySpaced(P, l)
    /\ SpheresBeforeSolids(P, l)
    /\ FacesGrowOutwards(P, F, l)

IsPass == op = "arrangement_check_and_fix"
IsFix == op = "fix_arrangement"

(* ------------------------------------------------------------------ claims *)
(* C1: in one pass over at least 2 objects with a sphere, the four
   predicates are evaluated on the positions before any correction, and
   fix_arrangement is called if and only if equal spacing fails, or
   collinearity fails, or both orderings fail; with no call, no position is
   written. *)
C1_FixIffFailed ==
    (IsPass /\ Len(obj_list) >= 2 /\ Spheres(obj_list) # {}) =>
        /\ ret = "None"
        /\ flags = [spaced |-> if_equally_spaced(prePos, obj_list),
                    in_line |-> check_if_in_line(prePos, obj_list),
                    order_poly |-> if_right_order_poly(faces, obj_list),
                    order |-> if_right_order(prePos, obj_list)]
        /\ (fixCalls > 0) <=>
               \/ ~ flags.spaced
               \/ ~ flags.in_line
               \/ (~ flags.order /\ ~ flags.order_poly)
        /\ (fixCalls = 0) => (pos = prePos /\ written = << >>)

(* a pass in which exactly one of the two orderings failed and nothing else *)
C1_Witness ==
    /\ IsPass /\ Len(obj_list) >= 2 /\ Spheres(obj_list) # {}
    /\ flags.spaced /\ flags.in_line
    /\ flags.order # flags.order_poly
    /\ fixCalls = 0

(* C2: after a pass that returns normally on at least 2 objects with a
   sphere, the arrangement is collinear, evenly spaced, has every sphere no
   further out than its same-index solid, and has face counts that do not
   decrease outwards. *)
C2_PassEstablishesLayout ==
    (IsPass /\ ret = "None" /\ Len(obj_list) >= 2 /\ Spheres(obj_list) # {}) =>
        Layout(pos, faces, obj_list)

(* C3: fix_arrangement writes every object of the list exactly once; the
   i-th object written gets (s*i, 0, 0) with s = D/n, D the furthest sphere's
   distance and n the number of spheres; the objects are written spheres
   first in ascending distance, then the others in ascending face count. *)
C3_CanonicalPlan ==
    (IsFix /\ ret = "None") =>
        LET n == Cardinality(Spheres(obj_list))
            D == FurthestSphere(prePos, obj_list)
            w == written
        IN  /\ Len(w) = Len(obj_list)
            /\ \A o \in Range(obj_list) :
                   Cardinality({i \in 1..Len(w) : w[i][1] = o}) = 1
            /\ \A i \in 1..Len(w) :
                   /\ n * w[i][2][1] = D * i
                   /\ w[i][2][2] = 0
                   /\ w[i][2][3] = 0
                   /\ pos[w[i][1]] = w[i][2]
            /\ \A i, j \in 1..Len(w) : i < j =>
                   /\ IsSphere(w[j][1]) => IsSphere(w[i][1])
                   /\ (IsSphere(w[i][1]) /\ IsSphere(w[j][1])) =>
                          Norm(prePos[w[i][1]]) <= Norm(prePos[w[j][1]])
                   /\ (~ IsSphere(w[i][1]) /\ ~ IsSphere(w[j][1])) =>
                          faces[w[i][1]] <= faces[w[j][1]]
            /\ DOMAIN pos = DOMAIN prePos

(* spheres and solids, out of order and off the axis, have been corrected *)
C3_Witness ==
    /\ IsFix /\ ret = "None"
    /\ Len(written) >= 3
    /\ Cardinality(Spheres(obj_list)) >= 2
    /\ \E i \in 1..Len(written) : written[i][1] # obj_list[i]
    /\ \E o \in Range(obj_list) : prePos[o][2] # 0

(* C4: fix_arrangement run again on its own output plans the same order,
   the same spacing and the same positions; so a pass that calls it two or
   three times ends where a pass that calls it once would. *)
C4_Idempotent ==
    /\ (IsFix /\ ret = "None") =>
           /\ fix_arrangement(pos, faces, obj_list) = written
           /\ set_attrs(pos, fix_arrangement(pos, faces, obj_list)) = pos
    /\ (IsPass /\ ret = "None" /\ fixCalls >= 1) =>
           pos = set_attrs(prePos, fix_arrangement(prePos, faces, obj_list))

(* a pass that corrected more than once and moved two spheres *)
C4_Witness ==
    /\ IsPass /\ ret = "None" /\ fixCalls >= 2
    /\ Cardinality({o \in Spheres(obj_list) : pos[o] # prePos[o]}) >= 2

C6_RightOrderIffPairViolates ==
    (op = "if_right_order") =>
        ((ret = "False") <=>
            \E s \in Spheres(obj_list) : \E t \in Solids(obj_list) :
                NumSuffix(s) = NumSuffix(t) /\ Norm(pos[t]) < Norm(pos[s]))

(* C7: on 3 or more points check_if_in_line returns true when they are
   collinear and false when one of them is off the line of the others. *)
C7_InLineIffCollinear ==
    (op = "check_if_in_line" /\ Len(obj_list) >= 3) =>
        /\ Collinear(pos, obj_list) => ret = "True"
        /\ OneOffLine(pos, obj_list) => ret = "False"

(* C8: each of the four predicates returns true on a list of fewer than 2
   objects. *)
C8_TrueOnShortLists ==
    (/\ op \in {"if_equally_spaced", "check_if_in_line",
                "if_right_order", "if_right_order_poly"}
     /\ Len(obj_list) < 2) => ret = "True"

(* C9: when the furthest sphere is at a distance D > 0, the positions that
   fix_arrangement writes make all four predicates return true on the
   objects sorted by their new distance. *)
C9_FixSatisfiesPredicates ==
    (IsFix /\ ret = "None" /\ FurthestSphere(prePos, obj_list) > 0) =>
        LET l == sort_by_distance(pos, obj_list)
        IN  /\ ~ if_equally_spaced_raises(l)
            /\ if_equally_spaced(pos, l)
            /\ check_if_in_line(pos, l)
            /\ if_right_order(pos, l)
            /\ if_right_order_poly(faces, l)

(* C10: after the filtering step the object list holds no name with the
   shape marker and still holds every other candidate. *)
C10_ShapesFiltered ==
    IsPass =>
        /\ \A o \in Range(obj_list) : ~ IsShape(o)
        /\ \A o \in Range(cand) : ~ IsShape(o) => o \in Range(obj_list)

====
